---- MODULE Spec2Model ----
(***************************************************************************)
(* Model of the file-owner crate (src/src/lib.rs): Owner / Group identity  *)
(* resolution against the OS user and group directories, the ownership     *)
(* mutators (set_owner, set_group, set_owner_group) and the ownership      *)
(* readers (owner, group, owner_group).                                    *)
(*                                                                         *)
(* The crate itself holds no state.  The state of the model is the state   *)
(* of the collaborators the crate calls (the user and group directories,   *)
(* the file's metadata, the caller's privilege), the value the caller      *)
(* holds, and a record of the operation that completed last.               *)
(***************************************************************************)
EXTENDS Integers, Sequences, FiniteSets, TLC

(***************************************************************************)
(* Bounds of the model.                                                    *)
(***************************************************************************)
\* uid_t / gid_t are 32 bits wide in the program.  The model keeps the
\* wrap-around arithmetic but on a narrower word, because the largest id
\* of the real width does not fit the integers of TLC.
IdBits == 4
\* Largest number of entries of a user or group directory.
MaxEntries == 2
\* Number of concurrent callers of set_owner_group (SpecConc).
NumSetters == 2

IdMod == 2 ^ IdBits
\* The largest id of the word, u32::MAX in the program.
IdMax == IdMod - 1

\* Numeric ids a caller passes (u32 arguments), ids the directories assign
\* and ids the file starts with.
Ids == {0, 1, IdMax}
DirIds == {0, 1}
\* The id the directories of the path operations assign to a name, and the
\* owner and group of a file the caller has just created.
PathDirIds == {1}
NewFile == [uid |-> 0, gid |-> 0]

\* Names the directories may hold.  A directory need not hold a name, so
\* every name is also an unknown name of some directory.
UserNames == {"nobody", "daemon"}
GroupNames == {"nogroup", "wheel"}
\* The names the path operations are called with.
PathUserNames == {"nobody"}
PathGroupNames == {"nogroup"}

\* An existing file and a path that does not exist.
Baz == "/tmp/baz"
Paths == {Baz, "/tmp/none"}
Existing == {Baz}

\* A directory is the ordered list of its entries (the order of the passwd
\* or group database); names are unique, ids need not be.
Directories(names, ids) ==
    UNION { { d \in [1..n -> [name : names, id : ids]] :
                \A i, j \in 1..n : d[i].name = d[j].name => i = j }
            : n \in 0..MaxEntries }

VARIABLES
    users,       \* the OS user directory
    groups,      \* the OS group directory
    userDbErr,   \* TRUE: calls into the user directory fail
    groupDbErr,  \* TRUE: calls into the group directory fail
    privileged,  \* TRUE: the caller may change the ownership of a file
    fs,          \* uid and gid in the metadata of the existing file
    held,        \* the Owner or Group value the caller holds
    last,        \* the operation that completed last, with its result
    again,       \* TRUE: the operation before it was the same call and succeeded
    pc,          \* SpecConc: position of each concurrent caller
    loc,         \* SpecConc: arguments and resolved ids of each caller
    hist,        \* SpecConc: every (uid, gid) pair the file has held
    got          \* SpecConc: what the reader's owner_group returned

vars == <<users, groups, userDbErr, groupDbErr, privileged, fs, held, last,
          again, pc, loc, hist, got>>
env == <<users, groups, userDbErr, groupDbErr, privileged>>
conc == <<pc, loc, hist, got>>

(***************************************************************************)
(* Values.                                                                 *)
(***************************************************************************)
\* Result<T, FileOwnerError>: kind is "Ok" or the error variant; shape tells
\* which T an Ok carries; text is the String payload.
Res(kind, shape, text, uid, gid) ==
    [kind |-> kind, shape |-> shape, text |-> text, uid |-> uid, gid |-> gid]
OkUnit == Res("Ok", "unit", "", 0, 0)
OkOwner(uid) == Res("Ok", "owner", "", uid, 0)
OkGroup(gid) == Res("Ok", "group", "", 0, gid)
OkPair(uid, gid) == Res("Ok", "pair", "", uid, gid)
OkSome(name) == Res("Ok", "some", name, 0, 0)
OkNone == Res("Ok", "none", "", 0, 0)
OkText(s) == Res("Ok", "text", s, 0, 0)

\* FileOwnerError::UserNotFound(name) and GroupNotFound(name).
UserNotFound(name) == Res("UserNotFound", "err", name, 0, 0)
GroupNotFound(name) == Res("GroupNotFound", "err", name, 0, 0)

\* impl From<io::Error> / From<nix::Error> for FileOwnerError.
From_nix_Error(errno) == Res("NixError", "err", errno, 0, 0)
From_io_Error_merged(errno) == Res("NixError", "err", errno, 0, 0)
From_io_Error(errno) == Res("IoError", "err", errno, 0, 0)

\* The owner / group argument of a mutator: a u32 or a &str.
ById(n) == [by |-> "id", id |-> n, name |-> ""]
ByName(s) == [by |-> "name", id |-> 0, name |-> s]
NoArg == [by |-> "none", id |-> 0, name |-> ""]
OwnerArgs == {ById(n) : n \in Ids} \cup {ByName(s) : s \in PathUserNames}
GroupArgs == {ById(n) : n \in Ids} \cup {ByName(s) : s \in PathGroupNames}

\* Option<Uid> / Option<Gid>.
Some(id) == [some |-> TRUE, id |-> id]
None == [some |-> FALSE, id |-> 0]

NoHeld == [type |-> "none", id |-> 0, from |-> ""]

(***************************************************************************)
(* The OS directory service (nix::unistd::User / Group).                   *)
(***************************************************************************)
\* The first entry of the directory whose field (name or id) is v, or 0.
FirstIndex(dir, field, v) ==
    IF \E i \in 1..Len(dir) : dir[i][field] = v
    THEN CHOOSE i \in 1..Len(dir) :
            dir[i][field] = v /\ \A j \in 1..(i - 1) : dir[j][field] # v
    ELSE 0

\* Result<Option<entry>>: err, or found with the first matching entry.
Lookup(dir, dbErr, field, v) ==
    LET i == FirstIndex(dir, field, v) IN
    IF dbErr THEN [err |-> TRUE, found |-> FALSE, name |-> "", id |-> 0]
    ELSE IF i = 0 THEN [err |-> FALSE, found |-> FALSE, name |-> "", id |-> 0]
    ELSE [err |-> FALSE, found |-> TRUE, name |-> dir[i].name, id |-> dir[i].id]

User_from_name(name) == Lookup(users, userDbErr, "name", name)
User_from_uid(uid) == Lookup(users, userDbErr, "id", uid)
NixGroup_from_name(name) == Lookup(groups, groupDbErr, "name", name)
NixGroup_from_gid(gid) == Lookup(groups, groupDbErr, "id", gid)

(***************************************************************************)
(* Identity Resolver: Owner and Group.  An Owner is its Uid, a Group its   *)
(* Gid.  Every library operation returns its result together with the OS   *)
(* calls it made, in order.                                                *)
(***************************************************************************)
Owner_from_uid(uid) == uid % IdMod
Owner_id(o) == o % IdMod
Group_from_gid(gid) == gid % IdMod
Group_id(g) == g % IdMod

\* The lookup error of nix converts with From<nix::Error>; an absent entry
\* becomes UserNotFound with the name that was passed in.
Owner_from_name(user) ==
    LET r == User_from_name(user) IN
    [res   |-> IF r.err THEN From_nix_Error("EIO")
               ELSE IF ~r.found THEN UserNotFound(user)
               ELSE OkOwner(r.id),
     calls |-> <<"getpwnam">>]

\* A faulty variant: the group impl copied from the owner impl keeps the
\* owner's error variant.
Group_from_name_copied(group) ==
    LET r == NixGroup_from_name(group) IN
    [res   |-> IF r.err THEN From_nix_Error("EIO")
               ELSE IF ~r.found THEN UserNotFound(group)
               ELSE OkGroup(r.id),
     calls |-> <<"getgrnam">>]

Group_from_name(group) ==
    LET r == NixGroup_from_name(group) IN
    [res   |-> IF r.err THEN From_nix_Error("EIO")
               ELSE IF ~r.found THEN GroupNotFound(group)
               ELSE OkGroup(r.id),
     calls |-> <<"getgrnam">>]

\* A faulty variant: the owner impl copied from the group impl still asks
\* the group directory.
Owner_name_viaGroups(o) ==
    LET r == NixGroup_from_gid(o) IN
    [res   |-> IF r.err THEN From_nix_Error("EIO")
               ELSE IF r.found THEN OkSome(r.name) ELSE OkNone,
     calls |-> <<"getgrgid">>]

Owner_name(o) ==
    LET r == User_from_uid(o) IN
    [res   |-> IF r.err THEN From_nix_Error("EIO")
               ELSE IF r.found THEN OkSome(r.name) ELSE OkNone,
     calls |-> <<"getpwuid">>]

Group_name(g) ==
    LET r == NixGroup_from_gid(g) IN
    [res   |-> IF r.err THEN From_nix_Error("EIO")
               ELSE IF r.found THEN OkSome(r.name) ELSE OkNone,
     calls |-> <<"getgrgid">>]

\* write!(f, "{}", id): the id as decimal text.
Digit(d) == <<"0", "1", "2", "3", "4", "5", "6", "7", "8", "9">>[d + 1]
RECURSIVE Decimal(_)
Decimal(n) == IF n < 10 THEN Digit(n) ELSE Decimal(n \div 10) \o Digit(n % 10)

\* A faulty variant: the name is unwrapped with a default instead of
\* falling back to the id.
Owner_fmt_default(o) ==
    LET n == Owner_name(o) IN
    [res   |-> IF n.res.kind = "Ok" /\ n.res.shape = "some"
               THEN OkText(n.res.text) ELSE OkText(""),
     calls |-> n.calls]

\* self.name().ok().flatten(): an error and an absent name both give None.
Owner_fmt(o) ==
    LET n == Owner_name(o) IN
    [res   |-> IF n.res.kind = "Ok" /\ n.res.shape = "some"
               THEN OkText(n.res.text) ELSE OkText(Decimal(Owner_id(o))),
     calls |-> n.calls]

Group_fmt(g) ==
    LET n == Group_name(g) IN
    [res   |-> IF n.res.kind = "Ok" /\ n.res.shape = "some"
               THEN OkText(n.res.text) ELSE OkText(Decimal(Group_id(g))),
     calls |-> n.calls]

\* A faulty variant: a numeric id is validated against the directory.
Owner_try_into_validating(a) ==
    IF a.by = "id"
    THEN [res |-> OkOwner(Owner_from_uid(a.id)), calls |-> <<"getpwuid">>]
    ELSE Owner_from_name(a.name)

\* impl From<u32> for Owner (infallible, no OS call) and
\* impl TryFrom<&str> for Owner.
Owner_try_into(a) ==
    IF a.by = "id"
    THEN [res |-> OkOwner(Owner_from_uid(a.id)), calls |-> <<>>]
    ELSE Owner_from_name(a.name)

Group_try_into(a) ==
    IF a.by = "id"
    THEN [res |-> OkGroup(Group_from_gid(a.id)), calls |-> <<>>]
    ELSE Group_from_name(a.name)

(***************************************************************************)
(* The ownership-change call, nix::unistd::chown over chown(2).            *)
(***************************************************************************)
\* A faulty variant: an id that is not given defaults to 0.
chown_raw_ids_default(o, g) ==
    <<IF o.some THEN o.id ELSE 0, IF g.some THEN g.id ELSE 0>>

\* nix passes an id that is not given as (0 as uid_t).wrapping_sub(1).
chown_raw_ids(o, g) ==
    <<IF o.some THEN o.id ELSE (0 - 1) % IdMod,
      IF g.some THEN g.id ELSE (0 - 1) % IdMod>>

\* chown(2): one atomic call; an id of (uid_t)-1 leaves that id as it is.
libc_chown(path, uid, gid) ==
    IF path \notin Existing THEN [err |-> "ENOENT", fs |-> fs]
    ELSE IF ~privileged THEN [err |-> "EPERM", fs |-> fs]
    ELSE [err |-> "",
          fs  |-> [uid |-> IF uid = IdMax THEN fs.uid ELSE uid,
                   gid |-> IF gid = IdMax THEN fs.gid ELSE gid]]

chown(path, o, g) ==
    LET ids == chown_raw_ids(o, g) IN libc_chown(path, ids[1], ids[2])

\* std::fs::metadata: one stat call giving both ids.
fs_metadata(path) ==
    IF path \in Existing
    THEN [err |-> "", uid |-> fs.uid, gid |-> fs.gid]
    ELSE [err |-> "ENOENT", uid |-> 0, gid |-> 0]

(***************************************************************************)
(* Ownership Mutator.  Each operation returns its result, the OS calls it  *)
(* made and the file's metadata after it.                                  *)
(***************************************************************************)
Resolved(r) == [res |-> r.res, calls |-> r.calls, fs |-> fs]
Changed(c, calls) ==
    [res   |-> IF c.err = "" THEN OkUnit ELSE From_nix_Error(c.err),
     calls |-> calls \o <<"chown">>,
     fs    |-> c.fs]

\* owner.try_into().map_err(Into::into)? is evaluated as an argument of
\* chown, so it returns before chown is called.
set_owner(path, a) ==
    LET o == Owner_try_into(a) IN
    IF o.res.kind # "Ok" THEN Resolved(o)
    ELSE Changed(chown(path, Some(o.res.uid), None), o.calls)

\* A faulty variant: a read-modify-write of both ids with the arguments of
\* chown in the wrong order.
set_group_swapped(path, a) ==
    LET g == Group_try_into(a) IN
    IF g.res.kind # "Ok" THEN Resolved(g)
    ELSE Changed(chown(path, Some(g.res.gid), Some(fs.uid)), g.calls)

set_group(path, a) ==
    LET g == Group_try_into(a) IN
    IF g.res.kind # "Ok" THEN Resolved(g)
    ELSE Changed(chown(path, None, Some(g.res.gid)), g.calls)

\* A faulty variant: the owner is applied before the group is resolved.
set_owner_group_stepwise(path, a, b) ==
    LET o == Owner_try_into(a)
        g == Group_try_into(b)
        c == chown(path, Some(o.res.uid), None)
    IN
    IF o.res.kind # "Ok" THEN Resolved(o)
    ELSE IF c.err # "" THEN Changed(c, o.calls)
    ELSE IF g.res.kind # "Ok"
         THEN [res |-> g.res, calls |-> o.calls \o <<"chown">> \o g.calls,
               fs |-> c.fs]
    ELSE [res   |-> OkUnit,
          calls |-> o.calls \o <<"chown">> \o g.calls \o <<"chown">>,
          fs    |-> [uid |-> c.fs.uid,
                     gid |-> IF g.res.gid = IdMax THEN c.fs.gid ELSE g.res.gid]]

\* The arguments are evaluated left to right: the owner is resolved, then
\* the group, then chown is called once with both.
set_owner_group(path, a, b) ==
    LET o == Owner_try_into(a)
        g == Group_try_into(b)
    IN
    IF o.res.kind # "Ok" THEN Resolved(o)
    ELSE IF g.res.kind # "Ok"
         THEN [res |-> g.res, calls |-> o.calls \o g.calls, fs |-> fs]
    ELSE Changed(chown(path, Some(o.res.uid), Some(g.res.gid)),
                 o.calls \o g.calls)

(***************************************************************************)
(* Ownership Reader.                                                       *)
(***************************************************************************)
owner(path) ==
    LET meta == fs_metadata(path) IN
    [res   |-> IF meta.err # "" THEN From_io_Error(meta.err)
               ELSE OkOwner(Owner_from_uid(meta.uid)),
     calls |-> <<"stat">>]

group(path) ==
    LET meta == fs_metadata(path) IN
    [res   |-> IF meta.err # "" THEN From_io_Error(meta.err)
               ELSE OkGroup(Group_from_gid(meta.gid)),
     calls |-> <<"stat">>]

owner_group(path) ==
    LET meta == fs_metadata(path) IN
    [res   |-> IF meta.err # "" THEN From_io_Error(meta.err)
               ELSE OkPair(Owner_from_uid(meta.uid), Group_from_gid(meta.gid)),
     calls |-> <<"stat">>]

(***************************************************************************)
(* State machine of a single caller: one action per exposed operation.     *)
(***************************************************************************)
Settable == {"set_owner", "set_group", "set_owner_group"}
Readable == {"owner", "group", "owner_group"}

Call(op, path, a, b) == [op |-> op, path |-> path, a |-> a, b |-> b]
CallOf(l) == Call(l.op, l.path, l.a, l.b)

\* The operation returns: it becomes the last operation.
Return(c, r) ==
    /\ last' = [op |-> c.op, path |-> c.path, a |-> c.a, b |-> c.b,
                res |-> r.res, calls |-> r.calls]
    /\ again' = (CallOf(last) = c /\ last.res.kind = "Ok")

HeldOwner(uid, from) == [type |-> "Owner", id |-> uid, from |-> from]
HeldGroup(gid, from) == [type |-> "Group", id |-> gid, from |-> from]

\* What every specification starts from; the directories, the faults and
\* the file's ids are chosen by each specification.
InitCommon ==
    /\ held = NoHeld
    /\ last = [op |-> "-", path |-> "", a |-> NoArg, b |-> NoArg,
               res |-> OkUnit, calls |-> <<>>]
    /\ again = FALSE
    /\ pc = [t \in 1..NumSetters |-> "idle"]
    /\ loc = [t \in 1..NumSetters |-> [a |-> NoArg, b |-> NoArg, uid |-> 0, gid |-> 0]]
    /\ hist = {fs}
    /\ got = fs

Init ==
    /\ users \in Directories(PathUserNames, PathDirIds)
    /\ groups \in Directories(PathGroupNames, PathDirIds)
    /\ userDbErr \in BOOLEAN
    /\ groupDbErr \in BOOLEAN
    /\ privileged \in BOOLEAN
    /\ fs = NewFile
    /\ InitCommon

\* The path operations.  The caller keeps no Owner or Group across them.
SetOwner(path, a) ==
    LET r == set_owner(path, a) IN
    /\ Return(Call("set_owner", path, a, NoArg), r)
    /\ fs' = r.fs
    /\ held' = NoHeld
    /\ UNCHANGED <<env, conc>>

SetGroup(path, b) ==
    LET r == set_group(path, b) IN
    /\ Return(Call("set_group", path, NoArg, b), r)
    /\ fs' = r.fs
    /\ held' = NoHeld
    /\ UNCHANGED <<env, conc>>

SetOwnerGroup(path, a, b) ==
    LET r == set_owner_group(path, a, b) IN
    /\ Return(Call("set_owner_group", path, a, b), r)
    /\ fs' = r.fs
    /\ held' = NoHeld
    /\ UNCHANGED <<env, conc>>

GetOwner(path) ==
    /\ Return(Call("owner", path, NoArg, NoArg), owner(path))
    /\ held' = NoHeld
    /\ UNCHANGED <<env, fs, conc>>

GetGroup(path) ==
    /\ Return(Call("group", path, NoArg, NoArg), group(path))
    /\ held' = NoHeld
    /\ UNCHANGED <<env, fs, conc>>

GetOwnerGroup(path) ==
    /\ Return(Call("owner_group", path, NoArg, NoArg), owner_group(path))
    /\ held' = NoHeld
    /\ UNCHANGED <<env, fs, conc>>

\* The resolver operations.  A constructor gives the caller the value it
\* holds; name, id and Display act on the held value.
OwnerFromUid(n) ==
    /\ Return(Call("Owner::from_uid", "", ById(n), NoArg),
              [res |-> OkOwner(Owner_from_uid(n)), calls |-> <<>>])
    /\ held' = HeldOwner(Owner_from_uid(n), "")
    /\ UNCHANGED <<env, fs, conc>>

GroupFromGid(n) ==
    /\ Return(Call("Group::from_gid", "", NoArg, ById(n)),
              [res |-> OkGroup(Group_from_gid(n)), calls |-> <<>>])
    /\ held' = HeldGroup(Group_from_gid(n), "")
    /\ UNCHANGED <<env, fs, conc>>

OwnerFromName(u) ==
    LET r == Owner_from_name(u) IN
    /\ Return(Call("Owner::from_name", "", ByName(u), NoArg), r)
    /\ held' = IF r.res.kind = "Ok" THEN HeldOwner(r.res.uid, u) ELSE NoHeld
    /\ UNCHANGED <<env, fs, conc>>

GroupFromName(g) ==
    LET r == Group_from_name(g) IN
    /\ Return(Call("Group::from_name", "", NoArg, ByName(g)), r)
    /\ held' = IF r.res.kind = "Ok" THEN HeldGroup(r.res.gid, g) ELSE NoHeld
    /\ UNCHANGED <<env, fs, conc>>

OwnerId ==
    /\ held.type = "Owner"
    /\ Return(Call("Owner::id", "", ById(held.id), NoArg),
              [res |-> OkOwner(Owner_id(held.id)), calls |-> <<>>])
    /\ UNCHANGED <<env, fs, held, conc>>

GroupId ==
    /\ held.type = "Group"
    /\ Return(Call("Group::id", "", NoArg, ById(held.id)),
              [res |-> OkGroup(Group_id(held.id)), calls |-> <<>>])
    /\ UNCHANGED <<env, fs, held, conc>>

OwnerName ==
    /\ held.type = "Owner"
    /\ Return(Call("Owner::name", "", ById(held.id), NoArg), Owner_name(held.id))
    /\ UNCHANGED <<env, fs, held, conc>>

GroupName ==
    /\ held.type = "Group"
    /\ Return(Call("Group::name", "", NoArg, ById(held.id)), Group_name(held.id))
    /\ UNCHANGED <<env, fs, held, conc>>

OwnerDisplay ==
    /\ held.type = "Owner"
    /\ Return(Call("Owner::fmt", "", ById(held.id), NoArg), Owner_fmt(held.id))
    /\ UNCHANGED <<env, fs, held, conc>>

GroupDisplay ==
    /\ held.type = "Group"
    /\ Return(Call("Group::fmt", "", NoArg, ById(held.id)), Group_fmt(held.id))
    /\ UNCHANGED <<env, fs, held, conc>>

NextPath ==
    \/ \E path \in Paths, a \in OwnerArgs : SetOwner(path, a)
    \/ \E path \in Paths, b \in GroupArgs : SetGroup(path, b)
    \/ \E path \in Paths, a \in OwnerArgs, b \in GroupArgs : SetOwnerGroup(path, a, b)
    \/ \E path \in Paths : GetOwner(path)
    \/ \E path \in Paths : GetGroup(path)
    \/ \E path \in Paths : GetOwnerGroup(path)

NextResolver(unames, gnames) ==
    \/ \E n \in Ids : OwnerFromUid(n)
    \/ \E n \in Ids : GroupFromGid(n)
    \/ \E u \in unames : OwnerFromName(u)
    \/ \E g \in gnames : GroupFromName(g)
    \/ OwnerId
    \/ GroupId
    \/ OwnerName
    \/ GroupName
    \/ OwnerDisplay
    \/ GroupDisplay

\* Every exposed operation, called by one caller, one call after another.
Next == NextPath \/ NextResolver(PathUserNames, PathGroupNames)

Spec == Init /\ [][Next]_vars

\* The resolver alone, over directories in which names may share an id.
InitResolver ==
    /\ users \in Directories(UserNames, DirIds)
    /\ groups \in Directories(GroupNames, DirIds)
    /\ userDbErr \in BOOLEAN
    /\ groupDbErr \in BOOLEAN
    /\ privileged = TRUE
    /\ fs = NewFile
    /\ InitCommon

SpecResolver == InitResolver /\ [][NextResolver(UserNames, GroupNames)]_vars

(***************************************************************************)
(* Concurrent callers on the existing file (SpecConc): callers 1 to        *)
(* NumSetters run set_owner_group, each OS call of it one step, while a    *)
(* reader runs owner_group.                                                *)
(***************************************************************************)
Setters == 1..NumSetters
ConcOwnerArgs == {ById(0)} \cup {ByName(s) : s \in PathUserNames}
ConcGroupArgs == {ById(0)} \cup {ByName(s) : s \in PathGroupNames}
NoLoc == [a |-> NoArg, b |-> NoArg, uid |-> 0, gid |-> 0]

InitConc ==
    /\ users \in Directories(PathUserNames, PathDirIds)
    /\ groups \in Directories(PathGroupNames, PathDirIds)
    /\ userDbErr = FALSE
    /\ groupDbErr = FALSE
    /\ privileged = TRUE
    /\ fs = NewFile
    /\ InitCommon

\* set_owner_group(path, a, b) is called.
Begin(t, a, b) ==
    /\ pc[t] = "idle"
    /\ pc' = [pc EXCEPT ![t] = "owner"]
    /\ loc' = [loc EXCEPT ![t] = [a |-> a, b |-> b, uid |-> 0, gid |-> 0]]
    /\ UNCHANGED <<env, fs, held, last, again, hist, got>>

\* owner.try_into()?: the call returns here when the owner does not resolve.
ResolveOwner(t) ==
    LET o == Owner_try_into(loc[t].a) IN
    /\ pc[t] = "owner"
    /\ IF o.res.kind = "Ok"
       THEN /\ pc' = [pc EXCEPT ![t] = "group"]
            /\ loc' = [loc EXCEPT ![t].uid = o.res.uid]
       ELSE /\ pc' = [pc EXCEPT ![t] = "idle"]
            /\ loc' = [loc EXCEPT ![t] = NoLoc]
    /\ UNCHANGED <<env, fs, held, last, again, hist, got>>

\* group.try_into()?: the call returns here when the group does not resolve.
ResolveGroup(t) ==
    LET g == Group_try_into(loc[t].b) IN
    /\ pc[t] = "group"
    /\ IF g.res.kind = "Ok"
       THEN /\ pc' = [pc EXCEPT ![t] = "chown"]
            /\ loc' = [loc EXCEPT ![t].gid = g.res.gid]
       ELSE /\ pc' = [pc EXCEPT ![t] = "idle"]
            /\ loc' = [loc EXCEPT ![t] = NoLoc]
    /\ UNCHANGED <<env, fs, held, last, again, hist, got>>

\* The one ownership-change call; then the call returns.
Chown(t) ==
    LET c == chown(Baz, Some(loc[t].uid), Some(loc[t].gid)) IN
    /\ pc[t] = "chown"
    /\ fs' = c.fs
    /\ hist' = hist \cup {c.fs}
    /\ pc' = [pc EXCEPT ![t] = "idle"]
    /\ loc' = [loc EXCEPT ![t] = NoLoc]
    /\ UNCHANGED <<env, held, last, again, got>>

\* A faulty variant: owner(path) and group(path) called one after the
\* other, the owner read at some earlier instant than the group.
OwnerGroupReadTwoStats ==
    /\ \E h \in hist : got' = [uid |-> h.uid, gid |-> fs.gid]
    /\ UNCHANGED <<env, fs, held, last, again, pc, loc, hist>>

\* The reader's owner_group(path): one metadata read gives both ids.
OwnerGroupRead ==
    LET r == owner_group(Baz) IN
    /\ got' = [uid |-> r.res.uid, gid |-> r.res.gid]
    /\ UNCHANGED <<env, fs, held, last, again, pc, loc, hist>>

NextConc ==
    \/ \E t \in Setters, a \in ConcOwnerArgs, b \in ConcGroupArgs : Begin(t, a, b)
    \/ \E t \in Setters : ResolveOwner(t)
    \/ \E t \in Setters : ResolveGroup(t)
    \/ \E t \in Setters : Chown(t)
    \/ OwnerGroupRead

SpecConc == InitConc /\ [][NextConc]_vars

(***************************************************************************)
(* Properties of the path operations (Spec).                               *)
(***************************************************************************)
Range(q) == {q[i] : i \in 1..Len(q)}
HasName(dir, n) == \E i \in 1..Len(dir) : dir[i].name = n
IdOf(dir, n) == dir[CHOOSE i \in 1..Len(dir) : dir[i].name = n].id

\* What the owner and the group argument of a mutator call resolve to; an
\* argument the operation does not take resolves to nothing and never fails.
OwnerResolution(l) ==
    IF l.op \in {"set_owner", "set_owner_group"} THEN Owner_try_into(l.a).res ELSE OkUnit
GroupResolution(l) ==
    IF l.op \in {"set_group", "set_owner_group"} THEN Group_try_into(l.b).res ELSE OkUnit

\* C1: when a set_owner, set_group or set_owner_group call cannot resolve
\* its owner or its group, it returns the resolver's error unchanged (the
\* owner's first), makes no ownership-change call, and the file's owner and
\* group are exactly what they were before the call.
C1_NoChangeWhenResolutionFails ==
    [][ LET o == OwnerResolution(last')
            g == GroupResolution(last')
        IN (last'.op \in Settable /\ (o.kind # "Ok" \/ g.kind # "Ok"))
           => /\ fs' = fs
              /\ "chown" \notin Range(last'.calls)
              /\ last'.res = IF o.kind # "Ok" THEN o ELSE g ]_vars

\* A set_owner_group call on the existing file by a privileged caller whose
\* owner resolved to an id the file does not have and whose group did not
\* resolve: the owner was not applied.
C1_Witness ==
    /\ last.op = "set_owner_group"
    /\ last.path \in Existing
    /\ privileged
    /\ OwnerResolution(last).kind = "Ok"
    /\ OwnerResolution(last).uid \notin {fs.uid, IdMax}
    /\ last.res.kind = "GroupNotFound"

\* C2: a set_owner call, successful or failed, leaves the file's group as it
\* was, and a set_group call leaves the file's owner as it was.
C2_Independence ==
    [][ /\ last'.op = "set_owner" => fs'.gid = fs.gid
        /\ last'.op = "set_group" => fs'.uid = fs.uid ]_vars

\* A successful set_owner to owner 0 on a file whose group is 1.
C2_Witness ==
    /\ last.op = "set_owner"
    /\ last.res.kind = "Ok"
    /\ last.a = ById(0)
    /\ fs = [uid |-> 0, gid |-> 1]

\* The UID / GID an argument stands for: the number itself, or the id the
\* directory assigns to the name.
UidOf(a) == IF a.by = "id" THEN a.id ELSE IdOf(users, a.name)
GidOf(b) == IF b.by = "id" THEN b.id ELSE IdOf(groups, b.name)

C3_RoundTripBelowIdMax ==
    [][ (/\ last.res.kind = "Ok"
         /\ last'.path = last.path
         /\ ById(IdMax) \notin {last.a, last.b})
        => /\ (last.op = "set_owner" /\ last'.op = "owner")
                => last'.res = OkOwner(UidOf(last.a))
           /\ (last.op = "set_group" /\ last'.op = "group")
                => last'.res = OkGroup(GidOf(last.b))
           /\ (last.op = "set_owner_group" /\ last'.op = "owner_group")
                => last'.res = OkPair(UidOf(last.a), GidOf(last.b)) ]_vars

\* C7: when a set_group call succeeds and the same call is made again right
\* after it, the second call succeeds too and leaves the file's owner and
\* group as the first call left them.
C7_SetGroupIdempotent ==
    [][ (last.op = "set_group" /\ last.res.kind = "Ok" /\ CallOf(last') = CallOf(last))
        => (last'.res.kind = "Ok" /\ fs' = fs) ]_vars

\* The second of two successful set_group calls in a row that gave the file
\* a group it was not created with.
C7_Witness ==
    /\ last.op = "set_group"
    /\ again
    /\ last.res.kind = "Ok"
    /\ fs.gid = GidOf(last.b)
    /\ fs.gid # NewFile.gid

\* C8 as stated: every exposed operation performs at most two blocking OS
\* calls (directory lookups, metadata reads and ownership-change calls
\* counted together) before it returns.
C8_AtMostTwoCalls == Len(last.calls) <= 2

\* C8 as amended: every exposed operation performs at most three blocking
\* OS calls, and more than two only in set_owner_group called with both the
\* owner and the group given as names (two lookups, then the
\* ownership-change call).
C8_AtMostThreeCalls ==
    /\ Len(last.calls) <= 3
    /\ Len(last.calls) > 2
         => /\ last.op = "set_owner_group"
            /\ last.a.by = "name"
            /\ last.b.by = "name"
            /\ last.calls = <<"getpwnam", "getgrnam", "chown">>

\* A set_owner_group call by two names that reached the ownership change.
C8_Witness ==
    /\ last.op = "set_owner_group"
    /\ last.res.kind = "Ok"
    /\ Len(last.calls) = 3

\* C9: a reader whose path cannot be stat-ed returns IoError, a mutator
\* whose ownership-change call fails (missing path, no privilege) returns
\* NixError, neither is reported as UserNotFound or GroupNotFound, and an
\* operation returns a success value only when nothing failed.
C9_ErrorKinds ==
    /\ last.op \in Readable
         => last.res.kind = IF last.path \in Existing THEN "Ok" ELSE "IoError"
    /\ (/\ last.op \in Settable
        /\ OwnerResolution(last).kind = "Ok"
        /\ GroupResolution(last).kind = "Ok")
         => last.res.kind = IF last.path \in Existing /\ privileged
                            THEN "Ok" ELSE "NixError"
    /\ (last.op \in Settable /\ last.res.kind = "Ok")
         => (OwnerResolution(last).kind = "Ok" /\ GroupResolution(last).kind = "Ok")

\* A set_owner_group call that resolved both names and whose
\* ownership-change call was refused.
C9_Witness ==
    /\ last.op = "set_owner_group"
    /\ last.a.by = "name"
    /\ last.b.by = "name"
    /\ last.path \in Existing
    /\ ~privileged
    /\ last.calls = <<"getpwnam", "getgrnam", "chown">>
    /\ last.res = From_nix_Error("EPERM")

(***************************************************************************)
(* Properties of the resolver (SpecResolver).                              *)
(***************************************************************************)
HasId(dir, id) == \E i \in 1..Len(dir) : dir[i].id = id
\* The name of the first entry of the directory with the id.
FirstNameOf(dir, id) ==
    dir[CHOOSE i \in 1..Len(dir) :
            dir[i].id = id /\ \A j \in 1..Len(dir) : dir[j].id = id => i <= j].name

\* from_name of a name the directory holds succeeds when the lookup call
\* itself does not fail.
FromNameSucceeds ==
    /\ (last.op = "Owner::from_name" /\ HasName(users, last.a.name) /\ ~userDbErr)
         => last.res.kind = "Ok"
    /\ (last.op = "Group::from_name" /\ HasName(groups, last.b.name) /\ ~groupDbErr)
         => last.res.kind = "Ok"

\* C4 as stated, read with directories whose lookup calls do not fail: for
\* an existing user name u, Owner::from_name(u) succeeds and name() of the
\* returned Owner returns Some(u); the same for groups.
C4_NameRoundTrip ==
    /\ FromNameSucceeds
    /\ (last.op = "Owner::name" /\ held.from # "") => last.res = OkSome(held.from)
    /\ (last.op = "Group::name" /\ held.from # "") => last.res = OkSome(held.from)

\* C4 as amended: when the lookup calls do not fail, from_name(u) of an
\* existing name u succeeds and name() of the returned Owner (Group)
\* returns Some(v), v being the first name of the directory that has u's
\* id; v is u whenever no other name has u's id.
C4_NameRoundTripUpToAlias ==
    /\ FromNameSucceeds
    /\ (last.op = "Owner::name" /\ held.from # "")
         => /\ last.res = OkSome(FirstNameOf(users, IdOf(users, held.from)))
            /\ (\A i \in 1..Len(users) :
                   users[i].id = held.id => users[i].name = held.from)
                 => last.res = OkSome(held.from)
    /\ (last.op = "Group::name" /\ held.from # "")
         => /\ last.res = OkSome(FirstNameOf(groups, IdOf(groups, held.from)))
            /\ (\A i \in 1..Len(groups) :
                   groups[i].id = held.id => groups[i].name = held.from)
                 => last.res = OkSome(held.from)

\* name() of an Owner made from a name whose id an earlier entry shares.
C4_Witness ==
    /\ last.op = "Owner::name"
    /\ held.from # ""
    /\ last.res.kind = "Ok"
    /\ last.res.shape = "some"
    /\ last.res.text # held.from

\* C5: Owner::from_name of a name the user directory does not hold fails
\* with UserNotFound carrying exactly that name, Group::from_name with
\* GroupNotFound carrying exactly that name; when the lookup call itself
\* fails the result is NixError; a user lookup never gives GroupNotFound
\* and a group lookup never gives UserNotFound.
C5_NotFoundCarriesName ==
    /\ last.op = "Owner::from_name"
         => /\ userDbErr => last.res.kind = "NixError"
            /\ (~userDbErr /\ ~HasName(users, last.a.name))
                 => last.res = UserNotFound(last.a.name)
            /\ last.res.kind # "GroupNotFound"
    /\ last.op = "Group::from_name"
         => /\ groupDbErr => last.res.kind = "NixError"
            /\ (~groupDbErr /\ ~HasName(groups, last.b.name))
                 => last.res = GroupNotFound(last.b.name)
            /\ last.res.kind # "UserNotFound"

\* Group::from_name of a name that a group directory with entries does not
\* hold.
C5_Witness ==
    /\ last.op = "Group::from_name"
    /\ Len(groups) > 0
    /\ ~HasName(groups, last.b.name)
    /\ last.res.kind = "GroupNotFound"
    /\ last.res.text = last.b.name

\* C6: Display of an Owner or Group always produces text: the name when the
\* reverse lookup succeeds and finds one, the id as decimal text when the
\* id has no entry or the lookup call fails; name() still returns the
\* lookup's failure as an error.
C6_DisplayFallsBackToId ==
    /\ last.op = "Owner::fmt"
         => last.res = OkText(IF ~userDbErr /\ HasId(users, held.id)
                              THEN FirstNameOf(users, held.id)
                              ELSE ToString(held.id))
    /\ last.op = "Group::fmt"
         => last.res = OkText(IF ~groupDbErr /\ HasId(groups, held.id)
                              THEN FirstNameOf(groups, held.id)
                              ELSE ToString(held.id))
    /\ (last.op = "Owner::name" /\ userDbErr) => last.res.kind = "NixError"
    /\ (last.op = "Group::name" /\ groupDbErr) => last.res.kind = "NixError"

\* Display of an Owner whose id has an entry while the lookup call fails.
C6_Witness ==
    /\ last.op = "Owner::fmt"
    /\ userDbErr
    /\ HasId(users, held.id)
    /\ last.res = OkText(ToString(held.id))

(***************************************************************************)
(* Property of concurrent callers (SpecConc).                              *)
(***************************************************************************)
\* C10: while other callers run set_owner_group on the same path, the
\* (Owner, Group) pair owner_group returns is a pair the path held at one
\* instant, never the owner of one change with the group of another.
C10_PairWasHeld == got \in hist

\* The reader saw the pair of a change while another call was under way,
\* the file having held no pair that mixes the two changes.
C10_Witness ==
    /\ got = [uid |-> 1, gid |-> 1]
    /\ hist = {NewFile, [uid |-> 1, gid |-> 1]}
    /\ fs = NewFile
    /\ \E t \in Setters : pc[t] = "chown"

====
